---- MODULE Spec2Model ----
(***************************************************************************)
(* A model of the flow engine of broker_bot (src/main.go): the flow        *)
(* documents and their validation, the config cache, the in-memory         *)
(* session store, the transition resolver (processMessage), the action     *)
(* registry and the per-message orchestration of handleMessage.            *)
(*                                                                         *)
(* Go strings whose contents the code inspects (bodies, variable names and *)
(* values, option ids, tenant and sender identities) are sequences of      *)
(* one-character strings.  State names, action names and message kinds are *)
(* only compared for equality and are TLA+ strings.                        *)
(***************************************************************************)
EXTENDS Integers, Sequences, FiniteSets, TLC

VARIABLES
    tokenSet,   \* WHATSAPP_TOKEN is set in the environment
    disk,       \* configs/{tenant}/flow.json, per tenant
    cache,      \* ConfigCache.cache: tenant -> FlowConfig
    sessions,   \* SessionStore.data: key -> [State, Data], Data a map reference
    heap,       \* the Go maps made for UserSession.Data, by reference
    owner,      \* for each map of heap, the (tenant, sender) that made it
    req,        \* per webhook request: the handler's position and locals
    crashed,    \* the runtime ended the process (concurrent map access)
    received,   \* messages taken from webhook deliveries so far
    pmIn,       \* a function applied in isolation (processMessage, renderVars,
                \* RenderAndSend): its arguments
    pmOut       \* ... and its results

vars == <<tokenSet, disk, cache, sessions, heap, owner, req, crashed, received, pmIn, pmOut>>

-----------------------------------------------------------------------------
(* Bounds of the model *)

\* concurrent webhook requests
NumRequests == 2
\* messages handled over the whole run
MaxMessages == 2

Requests == 1..NumRequests

-----------------------------------------------------------------------------
(* Strings *)

Space == {" ", "\t", "\n"}

RECURSIVE TrimLeft(_)
TrimLeft(s) ==
    IF s # <<>> /\ Head(s) \in Space THEN TrimLeft(Tail(s)) ELSE s

RECURSIVE TrimRight(_)
TrimRight(s) ==
    IF s # <<>> /\ s[Len(s)] \in Space THEN TrimRight(SubSeq(s, 1, Len(s) - 1)) ELSE s

\* strings.TrimSpace
TrimSpace(s) == TrimRight(TrimLeft(s))

\* simple case folding of one code point, for the letters the model uses
FoldChar(c) ==
    CASE c = "M" -> "m" [] c = "E" -> "e" [] c = "N" -> "n" [] c = "U" -> "u"
      [] c = "I" -> "i" [] c = "A" -> "a" [] c = "G" -> "g" [] c = "H" -> "h"
      [] OTHER -> c

\* strings.ToLower
ToLower(s) == [i \in 1..Len(s) |-> FoldChar(s[i])]

\* strings.EqualFold
EqualFold(s, t) ==
    /\ Len(s) = Len(t)
    /\ \A i \in 1..Len(s) : FoldChar(s[i]) = FoldChar(t[i])

\* does pat occur in s at position i
MatchAt(s, pat, i) ==
    /\ i + Len(pat) - 1 <= Len(s)
    /\ \A j \in 1..Len(pat) : s[i + j - 1] = pat[j]

\* strings.Contains
Contains(s, pat) == \E i \in 1..(Len(s) + 1) : MatchAt(s, pat, i)

RECURSIVE ReplaceFrom(_, _, _, _)
ReplaceFrom(s, pat, new, i) ==
    IF i > Len(s) THEN <<>>
    ELSE IF MatchAt(s, pat, i)
         THEN new \o ReplaceFrom(s, pat, new, i + Len(pat))
         ELSE <<s[i]>> \o ReplaceFrom(s, pat, new, i + 1)

\* strings.ReplaceAll, for a non-empty pattern
ReplaceAll(s, pat, new) == ReplaceFrom(s, pat, new, 1)

\* a string of n copies of the code point c
Rep(n, c) == [i \in 1..n |-> c]

\* a code point that UTF-8 encodes in two bytes; every other code point of the
\* model takes one
cAcute == "U+00E9"

\* len(s): the number of bytes
runeLen_bytes(s) == Len(s) + Cardinality({ i \in 1..Len(s) : s[i] = cAcute })

\* utf8.RuneCountInString
runeLen(s) == Len(s)

\* "{{" + k + "}}"
Placeholder(k) == <<"{", "{">> \o k \o <<"}", "}">>

\* a Go map lookup: the zero value "" for an absent key
Lookup(m, k) == IF k \in DOMAIN m THEN m[k] ELSE <<>>

\* a Go map assignment m[k] = v
Put(m, k, v) == [x \in (DOMAIN m) \cup {k} |-> IF x = k THEN v ELSE m[x]]

\* for k, v := range src { dst[k] = v }
PutAll(dst, src) ==
    [x \in (DOMAIN dst) \cup (DOMAIN src) |-> IF x \in DOMAIN src THEN src[x] ELSE dst[x]]

EmptyMap == <<>>

-----------------------------------------------------------------------------
(* Names used by the code and by the flow documents of the model *)

kName == <<"n", "a", "m", "e">>
kLastSelectedID == <<"l", "a", "s", "t", "_", "s", "e", "l", "e", "c", "t", "e", "d", "_", "i", "d">>
kSlot1 == <<"s", "l", "o", "t", "_", "1">>
kSlot2 == <<"s", "l", "o", "t", "_", "2">>
kSlot3 == <<"s", "l", "o", "t", "_", "3">>
kConfirm == <<"a", "p", "p", "o", "i", "n", "t", "m", "e", "n", "t", "_", "c", "o", "n", "f", "i", "r", "m", "_", "t", "i", "m", "e">>
kIsClient == <<"i", "s", "_", "c", "l", "i", "e", "n", "t">>
kClientName == <<"c", "l", "i", "e", "n", "t", "_", "n", "a", "m", "e">>
kLastVisit == <<"l", "a", "s", "t", "_", "v", "i", "s", "i", "t">>
kMissing == <<"m", "i", "s", "s", "i", "n", "g">>
sufISO == <<"_", "I", "S", "O">>

idA == <<"A">>
idB == <<"B">>
idC == <<"C">>
idSlot == <<"S", "L", "O", "T", "_", "1">>

sMenu == <<"m", "e", "n", "u">>
sImage == <<"i", "m", "a", "g", "e">>

-----------------------------------------------------------------------------
(* Flow documents *)

NoMedia == [Type |-> <<>>, Path |-> <<>>, URL |-> <<>>]
NoList == [Header |-> <<>>, ButtonText |-> <<>>, Footer |-> <<>>, Sections |-> <<>>]
NoButtons == [Header |-> <<>>, Footer |-> <<>>, Buttons |-> <<>>]

\* a FlowState without header_media, list and buttons
State(type, body, action, onText, onSelect) ==
    [Type |-> type, Body |-> body, Action |-> action,
     HasHeaderMedia |-> FALSE, HeaderMedia |-> NoMedia,
     HasList |-> FALSE, List |-> NoList,
     HasButtons |-> FALSE, Buttons |-> NoButtons,
     OnTextNext |-> onText, OnSelectNext |-> onSelect]

Row(id, title) == [ID |-> id, Title |-> title, Description |-> <<>>]
Button(id, title) == [ID |-> id, Title |-> title]

ListOf(rows) ==
    [Header |-> <<"H">>, ButtonText |-> <<"V", "e", "r">>, Footer |-> <<>>,
     Sections |-> << [Title |-> <<"S">>, Rows |-> rows] >>]

ButtonsOf(btns) == [Header |-> <<>>, Footer |-> <<>>, Buttons |-> btns]

\* the flow of the main tenant: a list menu, a slot choice filled in by
\* get_calendar_slots, a booking confirmed by schedule_appointment, and a
\* text state whose action is not registered.  MENU row B and INFO's
\* on_text_next name a state that the document does not define, and MENU
\* row C maps to the empty name.
FlowMain ==
    [States |->
        ("MENU" :> [State("interactive_list",
                          <<"H", "i", " ">> \o Placeholder(kName), "", "",
                          (idA :> "SLOTS") @@ (idB :> "GHOST") @@ (idC :> ""))
                    EXCEPT !.HasList = TRUE,
                           !.List = ListOf(<<Row(idA, <<"a">>), Row(idB, <<"b">>), Row(idC, <<"c">>)>>)])
     @@ ("SLOTS" :> [State("interactive_buttons",
                           <<" ">> \o Placeholder(kSlot1) \o <<" ">>, "get_calendar_slots", "INFO",
                           (idSlot :> "BOOK"))
                     EXCEPT !.HasButtons = TRUE,
                            !.Buttons = ButtonsOf(<<Button(idSlot, Placeholder(kSlot1))>>)])
     @@ ("BOOK" :> State("text", <<"T", " ">> \o Placeholder(kConfirm),
                         "schedule_appointment", "", <<>>))
     @@ ("INFO" :> State("text", Placeholder(kMissing) \o Placeholder(kName),
                         "fetch_price", "GHOST", <<>>))]

\* the flow of the second tenant: a text menu announced by mock_crm_lookup
FlowSmall ==
    [States |->
        ("MENU" :> State("text", Placeholder(kClientName), "mock_crm_lookup", "HELP", <<>>))
     @@ ("HELP" :> State("text", <<"?">>, "", "", (idA :> "MENU")))]

\* a flow without a state named MENU
FlowNoMenu ==
    [States |-> ("START" :> State("text", <<"s">>, "", "START", <<>>))]

\* a flow whose buttons state has a title longer than the channel allows
FlowLongTitle ==
    [States |->
        ("MENU" :> [State("interactive_buttons", <<"m">>, "", "", <<>>)
                    EXCEPT !.HasButtons = TRUE,
                           !.Buttons = ButtonsOf(<<Button(idA, Rep(21, "x"))>>)])]

\* a flow with a state of a kind that RenderAndSend does not know
FlowOdd ==
    [States |->
        ("MENU" :> State("text", <<"m">>, "", "PROMO", <<>>))
     @@ ("PROMO" :> State("video", <<"v">>, "", "", <<>>))]

\* a document without states
FlowEmpty == [States |-> <<>>]

\* what os.ReadFile and json.Unmarshal find at configs/{tenant}/flow.json
File(cfg) == [readable |-> TRUE, json |-> TRUE, cfg |-> cfg]
FileMissing == [readable |-> FALSE, json |-> FALSE, cfg |-> FlowEmpty]
FileBadJSON == [readable |-> TRUE, json |-> FALSE, cfg |-> FlowEmpty]

-----------------------------------------------------------------------------
(* Flow validation (WhatsApp limits) *)

MaxHeaderLen == 60
MaxButtonTextLen == 20
MaxTitleLen == 24
MaxDescriptionLen == 72
MaxButtons == 3

Defect(name, field) == [state |-> name, field |-> field]

\* the checks of a state's header_media
MediaDefects(name, st) ==
    IF ~st.HasHeaderMedia THEN {}
    ELSE LET mt == ToLower(TrimSpace(st.HeaderMedia.Type)) IN
         (IF mt = <<>> THEN {Defect(name, "header_media.type vacio")}
          ELSE IF mt # sImage THEN {Defect(name, "header_media.type no soportado")}
          ELSE {})
         \cup
         (IF TrimSpace(st.HeaderMedia.URL) = <<>> /\ TrimSpace(st.HeaderMedia.Path) = <<>>
          THEN {Defect(name, "header_media requiere url o path")}
          ELSE {})

\* the checks of an interactive_list state
ListDefects(name, st) ==
    IF ~st.HasList THEN {Defect(name, "list es nil")}
    ELSE LET l == st.List IN
         (IF runeLen(l.Header) > MaxHeaderLen THEN {Defect(name, "header > 60")} ELSE {})
         \cup (IF runeLen(l.Footer) > MaxHeaderLen THEN {Defect(name, "footer > 60")} ELSE {})
         \cup (IF runeLen(l.ButtonText) > MaxButtonTextLen THEN {Defect(name, "button_text > 20")} ELSE {})
         \cup UNION {
                (IF runeLen(l.Sections[i].Title) > MaxTitleLen
                 THEN {Defect(name, "section title > 24")} ELSE {})
                \cup UNION {
                       LET row == l.Sections[i].Rows[j] IN
                       (IF TrimSpace(row.ID) = <<>> THEN {Defect(name, "row id vacio")} ELSE {})
                       \cup (IF runeLen(row.Title) > MaxTitleLen
                             THEN {Defect(name, "row title > 24")} ELSE {})
                       \cup (IF runeLen(row.Description) > MaxDescriptionLen
                             THEN {Defect(name, "row desc > 72")} ELSE {})
                       : j \in 1..Len(l.Sections[i].Rows) }
                : i \in 1..Len(l.Sections) }

\* the checks of an interactive_buttons state
ButtonsDefects(name, st) ==
    IF ~st.HasButtons THEN {Defect(name, "buttons es nil")}
    ELSE LET b == st.Buttons IN
         (IF runeLen(b.Header) > MaxHeaderLen THEN {Defect(name, "buttons.header > 60")} ELSE {})
         \cup (IF runeLen(b.Footer) > MaxHeaderLen THEN {Defect(name, "buttons.footer > 60")} ELSE {})
         \cup (IF Len(b.Buttons) = 0 THEN {Defect(name, "no tiene buttons")}
               ELSE (IF Len(b.Buttons) > MaxButtons THEN {Defect(name, "botones > 3")} ELSE {})
                    \cup UNION {
                           (IF TrimSpace(b.Buttons[i].ID) = <<>>
                            THEN {Defect(name, "button id vacio")} ELSE {})
                           \cup (IF runeLen(b.Buttons[i].Title) > MaxButtonTextLen
                                 THEN {Defect(name, "button title > 20")} ELSE {})
                           : i \in 1..Len(b.Buttons) })

\* the defects validateFlowConfig collects; it returns an error iff there are any
validateFlowConfig(cfg) ==
    UNION { MediaDefects(n, cfg.States[n])
            \cup (IF cfg.States[n].Type = "interactive_list" THEN ListDefects(n, cfg.States[n])
                  ELSE IF cfg.States[n].Type = "interactive_buttons"
                       THEN ButtonsDefects(n, cfg.States[n])
                       ELSE {})
            : n \in DOMAIN cfg.States }

\* loadFlowConfig: the flow, or the kind of error
loadFlowConfig_logsDefects(file) ==
    IF ~file.readable THEN [err |-> "read", cfg |-> FlowEmpty]
    ELSE IF ~file.json THEN [err |-> "json", cfg |-> FlowEmpty]
    ELSE IF Cardinality(DOMAIN file.cfg.States) = 0 THEN [err |-> "nostates", cfg |-> FlowEmpty]
    ELSE [err |-> "", cfg |-> file.cfg]

loadFlowConfig(file) ==
    IF ~file.readable THEN [err |-> "read", cfg |-> FlowEmpty]
    ELSE IF ~file.json THEN [err |-> "json", cfg |-> FlowEmpty]
    ELSE IF Cardinality(DOMAIN file.cfg.States) = 0 THEN [err |-> "nostates", cfg |-> FlowEmpty]
    ELSE IF validateFlowConfig(file.cfg) # {} THEN [err |-> "invalid", cfg |-> FlowEmpty]
    ELSE [err |-> "", cfg |-> file.cfg]

-----------------------------------------------------------------------------
(* Inbound messages *)

Msg(type) ==
    [Type |-> type, HasText |-> FALSE, Body |-> <<>>,
     HasInteractive |-> FALSE, IType |-> "",
     HasListReply |-> FALSE, ListID |-> <<>>,
     HasButtonReply |-> FALSE, ButtonID |-> <<>>]

TextMsg(body) == [Msg("text") EXCEPT !.HasText = TRUE, !.Body = body]
ListReply(id) ==
    [Msg("interactive") EXCEPT !.HasInteractive = TRUE, !.IType = "list_reply",
                               !.HasListReply = TRUE, !.ListID = id]
ButtonReply(id) ==
    [Msg("interactive") EXCEPT !.HasInteractive = TRUE, !.IType = "button_reply",
                               !.HasButtonReply = TRUE, !.ButtonID = id]

\* bodies of text messages: the keyword in several spellings, and others
MenuBodies == { sMenu, <<" ", "M", "e", "n", "u", "\n">>, <<"M", "E", "N", "U">> }
OtherBodies == { <<"h", "i">>, <<>>, <<"m", "e", "n", "u", "s">>, <<"m", "e", " ", "n", "u">> }

ReplyIds == {idA, idB, idC, idSlot, <<>>}

\* messages whose parts do not fit their kind
OddMsgs ==
    { Msg("text"),                                               \* text without a text part
      Msg("interactive"),                                        \* interactive without a part
      [Msg("interactive") EXCEPT !.HasInteractive = TRUE, !.IType = "nfm_reply"],
      [Msg("interactive") EXCEPT !.HasInteractive = TRUE, !.IType = "list_reply",
                                 !.HasButtonReply = TRUE, !.ButtonID = idA],
      [Msg("interactive") EXCEPT !.HasInteractive = TRUE, !.IType = "button_reply",
                                 !.HasListReply = TRUE, !.ListID = idA],
      Msg("image"), Msg("") }

AllMsgs ==
    { TextMsg(b) : b \in MenuBodies \cup OtherBodies }
    \cup { ListReply(i) : i \in ReplyIds } \cup { ButtonReply(i) : i \in ReplyIds }
    \cup OddMsgs

-----------------------------------------------------------------------------
(* The transition resolver: processMessage after the flow is at hand *)

Result(next, handled) == [next |-> next, handled |-> handled]

\* case "text"
resolveText_skipsKeyword(st, msg) ==
    IF ~msg.HasText THEN Result("MENU", FALSE)
    ELSE IF st.OnTextNext # "" THEN Result(st.OnTextNext, TRUE)
    ELSE IF EqualFold(TrimSpace(msg.Body), sMenu) THEN Result("MENU", TRUE)
    ELSE Result("MENU", FALSE)

resolveText_handlesAll(st, msg) ==
    IF ~msg.HasText THEN Result("MENU", FALSE)
    ELSE IF EqualFold(TrimSpace(msg.Body), sMenu) THEN Result("MENU", TRUE)
    ELSE IF st.OnTextNext # "" THEN Result(st.OnTextNext, TRUE)
    ELSE Result("MENU", TRUE)

resolveText(st, msg) ==
    IF ~msg.HasText THEN Result("MENU", FALSE)
    ELSE IF EqualFold(TrimSpace(msg.Body), sMenu) THEN Result("MENU", TRUE)
    ELSE IF st.OnTextNext # "" THEN Result(st.OnTextNext, TRUE)
    ELSE Result("MENU", FALSE)

\* if ns, ok := st.OnSelectNext[id]; ok && ns != ""
resolveSelect_anyTarget(st, id) ==
    IF id \in DOMAIN st.OnSelectNext
    THEN Result(st.OnSelectNext[id], TRUE)
    ELSE Result("MENU", FALSE)

resolveSelect(st, id) ==
    IF id \in DOMAIN st.OnSelectNext /\ st.OnSelectNext[id] # ""
    THEN Result(st.OnSelectNext[id], TRUE)
    ELSE Result("MENU", FALSE)

\* case "interactive"
resolveInteractive(st, msg) ==
    IF ~msg.HasInteractive THEN Result("MENU", FALSE)
    ELSE IF msg.IType = "list_reply"
         THEN IF ~msg.HasListReply THEN Result("MENU", FALSE)
              ELSE resolveSelect(st, msg.ListID)
    ELSE IF msg.IType = "button_reply"
         THEN IF ~msg.HasButtonReply THEN Result("MENU", FALSE)
              ELSE resolveSelect(st, msg.ButtonID)
    ELSE Result("MENU", FALSE)

\* lines 1039-1101
resolve_trustsState(cfg, state, msg) ==
    LET st == IF state \in DOMAIN cfg.States THEN cfg.States[state]
              ELSE State("text", <<>>, "", state, <<>>) IN
    IF msg.Type = "text" THEN resolveText(st, msg)
    ELSE IF msg.Type = "interactive" THEN resolveInteractive(st, msg)
    ELSE Result("MENU", FALSE)

resolve(cfg, state, msg) ==
    IF state \notin DOMAIN cfg.States THEN Result("MENU", FALSE)
    ELSE LET st == cfg.States[state] IN
         IF msg.Type = "text" THEN resolveText(st, msg)
         ELSE IF msg.Type = "interactive" THEN resolveInteractive(st, msg)
         ELSE Result("MENU", FALSE)

\* processMessage as a whole, given the tenant's cache entry (if any) and its
\* file: the results, and the flow it stores in the cache on a miss
processMessage(cached, entry, file, state, msg) ==
    LET loaded == loadFlowConfig(file)
        cfg == IF cached THEN entry ELSE loaded.cfg
    IN  IF ~cached /\ loaded.err # ""
        THEN [next |-> "", handled |-> FALSE, err |-> loaded.err, stores |-> FALSE]
        ELSE [next |-> resolve(cfg, state, msg).next,
              handled |-> resolve(cfg, state, msg).handled,
              err |-> "", stores |-> ~cached]

-----------------------------------------------------------------------------
(* Tenants, senders and the files on disk *)

TenantA == <<"a">>
TenantAB == <<"a", ":", "b">>
Tenants == {TenantA, TenantAB}

UserC == <<"c">>
UserBC == <<"b", ":", "c">>

\* tenant + ":" + waID
SessKey(tenant, waID) == tenant \o <<":">> \o waID

\* the flow files the model draws from
LoadableFiles == { File(FlowMain), File(FlowSmall), File(FlowNoMenu) }
BrokenFiles == { File(FlowLongTitle), File(FlowEmpty), FileMissing, FileBadJSON }
Files == LoadableFiles \cup BrokenFiles

\* state names: those of the flows, and one that no flow defines
StateNames == {"MENU", "SLOTS", "BOOK", "INFO", "HELP", "START", "GHOST"}

-----------------------------------------------------------------------------
(* Templating *)

\* s = strings.ReplaceAll(s, "{{"+k+"}}", v)
Subst(s, vs, k) == ReplaceAll(s, Placeholder(k), vs[k])

Live(s, keys) == { k \in keys : Contains(s, Placeholder(k)) }

\* The strings the loop of renderVars can end with.  Go ranges over the map
\* in an unspecified order.  Applying a key whose placeholder does not occur
\* changes nothing, so the orders are told apart by the key applied next
\* among those that occur, and by which of the keys that this makes occur
\* had their turn before.
RECURSIVE renderLoop(_, _, _)
renderLoop(s, vs, keys) ==
    IF Live(s, keys) = {} THEN {s}
    ELSE UNION { LET s2 == Subst(s, vs, k)
                     rest == keys \ {k}
                     woken == Live(s2, rest) \ Live(s, rest)
                 IN  UNION { renderLoop(s2, vs, rest \ gone) : gone \in SUBSET woken }
                 : k \in Live(s, keys) }

\* renderVars: the set of its possible results
renderVars(s, vs) ==
    IF s = <<>> \/ DOMAIN vs = {} THEN {s} ELSE renderLoop(s, vs, DOMAIN vs)

-----------------------------------------------------------------------------
(* The action registry *)

vTrue == <<"t", "r", "u", "e">>
vFalse == <<"f", "a", "l", "s", "e">>
vVip == <<"C", "a", "r", "l", "o", "s", " ", "(", "C", "l", "i", "e", "n", "t", "e", " ", "V", "I", "P", ")">>
vVisit == <<"1", "5", " ", "d", "e", " ", "F", "e", "b", "r", "e", "r", "o">>
vVisitor == <<"V", "i", "s", "i", "t", "a", "n", "t", "e">>
vErrorConfig == <<"E", "r", "r", "o", "r", " ", "C", "o", "n", "f", "i", "g">>
vNoSystem == <<"S", "i", "n", " ", "s", "i", "s", "t", "e", "m", "a">>
vNoSlot == <<"S", "i", "n", " ", "c", "u", "p", "o">>
vDash == <<"-">>

\* actionRegistry
Registry == {"mock_crm_lookup", "get_calendar_slots", "schedule_appointment"}

\* the byte value of the characters that end a sender identity in the model
ByteOf(c) == CASE c = "b" -> 98 [] c = "c" -> 99 [] c = ":" -> 58 [] OTHER -> 48

Ok(vs) == [err |-> FALSE, vars |-> vs]
Failed == [err |-> TRUE, vars |-> EmptyMap]

\* actionMockCRMLookup: a client iff the last byte of the identity is even
actionMockCRMLookup(userID) ==
    IF Len(userID) > 0 /\ ByteOf(userID[Len(userID)]) % 2 = 0
    THEN { Ok((kIsClient :> vTrue) @@ (kClientName :> vVip) @@ (kLastVisit :> vVisit)) }
    ELSE { Ok((kIsClient :> vFalse) @@ (kClientName :> vVisitor)) }

\* what the calendar may answer to GetNextAvailableSlots: no slot, or one
\* slot with its id, its text and its date
CalendarSlots ==
    { <<>>,
      << [ID |-> idSlot, Text |-> <<"L", "u", "n">>, ISOValue |-> <<"D", "1", "8">>] >>,
      << [ID |-> idSlot, Text |-> <<"M", "a", "r">>, ISOValue |-> <<"D", "1", "9">>] >> }

\* the variables actionGetCalendarSlots builds from the slots
SlotVars(slots) ==
    LET base == (kSlot1 :> vNoSlot) @@ (kSlot2 :> vDash) @@ (kSlot3 :> vDash) IN
    IF Len(slots) = 0 THEN base
    ELSE PutAll(base, (kSlot1 :> slots[1].Text) @@ ((slots[1].ID \o sufISO) :> slots[1].ISOValue))

\* actionGetCalendarSlots never returns an error: a calendar that cannot be
\* set up or queried gives a slot_1 that says so
actionGetCalendarSlots ==
    { Ok(kSlot1 :> vErrorConfig), Ok(kSlot1 :> vNoSystem) }
    \cup { Ok(SlotVars(slots)) : slots \in CalendarSlots }

\* actionScheduleAppointment: fails without a date for the selected id, and
\* when the calendar cannot be set up or refuses the appointment
actionScheduleAppointment(data) ==
    LET selectedID == Lookup(data, kLastSelectedID)
        isoDate == Lookup(data, selectedID \o sufISO)
    IN  IF isoDate = <<>> THEN { Failed }
        ELSE { Failed, Ok(kConfirm :> isoDate) }

\* fn(tenant, waID, &sess): the results the handler may return
RunAction(name, userID, data) ==
    IF name = "mock_crm_lookup" THEN actionMockCRMLookup(userID)
    ELSE IF name = "get_calendar_slots" THEN actionGetCalendarSlots
    ELSE actionScheduleAppointment(data)

-----------------------------------------------------------------------------
(* The system before the first request *)

NoAct == [kind |-> "none", name |-> "", vars |-> EmptyMap]
NoOut ==
    [kind |-> "none", state |-> "", body |-> <<>>, err |-> "", names |-> "", apology |-> FALSE]
NoSess == [State |-> "", Data |-> 0]
NoView == [ok |-> FALSE, State |-> "", Data |-> EmptyMap]

IdleReq ==
    [pc |-> "idle", tenant |-> <<>>, waID |-> <<>>, name |-> <<>>, msg |-> Msg(""),
     sess |-> NoSess, vars |-> EmptyMap, next |-> "", handled |-> FALSE,
     act |-> NoAct, out |-> NoOut,
     read |-> "",        \* the state that Get found ("" for no session)
     stale |-> FALSE,    \* another handler has Set the key since, before this one's Set
     lost |-> FALSE,     \* another handler has Set the key after this one's Set
     locks |-> {},       \* the locks the handler holds between its steps
     again |-> FALSE,    \* the message is a redelivery of the one just handled
     before |-> NoView]  \* ... and this is what the store held when it came

\* the files of the two tenants
Disks ==
    { d \in [Tenants -> Files] :
        /\ d[TenantA] \in {File(FlowMain), FileMissing}
        /\ d[TenantAB] \in {File(FlowSmall), File(FlowNoMenu), File(FlowLongTitle)} }

SystemInit ==
    /\ tokenSet \in BOOLEAN
    /\ disk \in Disks
    /\ cache = <<>>
    /\ sessions = <<>>
    /\ heap = <<>>
    /\ owner = <<>>
    /\ req = [r \in Requests |-> IdleReq]
    /\ crashed = FALSE
    /\ received = 0

-----------------------------------------------------------------------------
(* Webhook deliveries *)

\* the conversations that messages arrive from
Convs == { <<TenantA, UserC>>, <<TenantA, UserBC>>, <<TenantAB, UserC>> }

\* the messages of the deliveries
Deliveries ==
    { TextMsg(<<" ", "M", "e", "n", "u", "\n">>), TextMsg(<<"h", "i">>),
      ListReply(idA), ListReply(idB), ButtonReply(idSlot) }

\* the profile name that comes with a sender
ProfileName(waID) == IF waID = UserC THEN <<" ", "A", "n", "a">> ELSE <<" ">>

\* name := TrimSpace(Contacts[0].Profile.Name), or a default
ContactName(waID) ==
    IF TrimSpace(ProfileName(waID)) = <<>> THEN <<"a", "h", "i">>
    ELSE TrimSpace(ProfileName(waID))

\* the id that handleMessage records for an interactive message ("" if none)
SelectedID(msg) ==
    IF msg.Type = "interactive" /\ msg.HasInteractive
    THEN IF msg.HasListReply THEN msg.ListID
         ELSE IF msg.HasButtonReply THEN msg.ButtonID
         ELSE <<>>
    ELSE <<>>

Key(r) == SessKey(req[r].tenant, req[r].waID)

\* SessionStore.mu and ConfigCache.mu
muSessions == "SessionStore.mu"
muCache == "ConfigCache.mu"

\* s.mu.Lock() or RLock(), and the deferred Unlock() or RUnlock() on return
Lock(held, mu) == held \cup {mu}

Unlock_missing(held, mu) == held

Unlock(held, mu) == held \ {mu}

\* no other handler holds the lock, so a call that takes it does not wait
CanLock(r, mu) == \A x \in Requests \ {r} : mu \notin req[x].locks

\* a handler after a call of Get or Set, which takes the lock and gives it
\* back before it returns: lines 241-252, 267-278
AfterCall(rec, mu) == [rec EXCEPT !.locks = Unlock(Lock(@, mu), mu)]

\* SessionStore.Get
SessionGet(key) ==
    IF key \in DOMAIN sessions THEN [ok |-> TRUE, sess |-> sessions[key]]
    ELSE [ok |-> FALSE, sess |-> NoSess]

\* SessionStore.Set: the store with the record under the key
SessionSet_keepsFirst(store, key, sess) ==
    IF key \in DOMAIN store THEN store ELSE Put(store, key, sess)

SessionSet(store, key, sess) == Put(store, key, sess)

\* what the store holds for a key, the contents of the data map included
View(key) ==
    IF key \in DOMAIN sessions
    THEN [ok |-> TRUE, State |-> sessions[key].State, Data |-> heap[sessions[key].Data]]
    ELSE NoView

\* handler x holds, or is about to compare with, what the store held for the
\* key that handler r is setting
Outdated(r, x) ==
    /\ x # r /\ req[x].pc # "idle" /\ Key(x) = Key(r)
    /\ req[x].pc # "get" \/ req[x].again

\* the other handlers after a Set by handler r
OthersAfterSet(r, x) ==
    IF ~Outdated(r, x) THEN req[x]
    ELSE IF req[x].pc \in {"render", "done"} THEN [req[x] EXCEPT !.lost = TRUE]
    ELSE [req[x] EXCEPT !.stale = TRUE]

Incoming(conv, msg) ==
    [IdleReq EXCEPT !.pc = "get", !.tenant = conv[1], !.waID = conv[2],
                    !.name = ContactName(conv[2]), !.msg = msg,
                    !.vars = (kName :> ContactName(conv[2]))]

\* a message is taken from a delivery: lines 885-898
Receive(r) ==
    /\ ~crashed
    /\ req[r].pc = "idle"
    /\ received < MaxMessages
    /\ \E conv \in Convs, msg \in Deliveries :
         req' = [req EXCEPT ![r] = Incoming(conv, msg)]
    /\ received' = received + 1
    /\ UNCHANGED <<tokenSet, disk, cache, sessions, heap, owner, crashed, pmIn, pmOut>>

\* the channel delivers the message that was just handled once more
Redeliver(r) ==
    /\ ~crashed
    /\ req[r].pc = "done"
    /\ received < MaxMessages
    /\ req' = [req EXCEPT ![r] =
                 [Incoming(<<req[r].tenant, req[r].waID>>, req[r].msg)
                    EXCEPT !.again = TRUE, !.before = View(Key(r))]]
    /\ received' = received + 1
    /\ UNCHANGED <<tokenSet, disk, cache, sessions, heap, owner, crashed, pmIn, pmOut>>

\* the handler is through with the message
Release(r) ==
    /\ ~crashed
    /\ req[r].pc = "done"
    /\ req' = [req EXCEPT ![r] = IdleReq]
    /\ UNCHANGED <<tokenSet, disk, cache, sessions, heap, owner, crashed, received, pmIn, pmOut>>

\* the message is over
Finish(r, out) == [req[r] EXCEPT !.pc = "done", !.out = out]

\* the session's data is copied into vars, and the channel client is made
\* (without a token the message is dropped): lines 912-925
WithVars(r, sess) ==
    IF ~tokenSet THEN [Finish(r, NoOut) EXCEPT !.sess = sess]
    ELSE [req[r] EXCEPT !.sess = sess,
                        !.vars = PutAll(@, heap[sess.Data]),
                        !.pc = IF SelectedID(req[r].msg) # <<>> THEN "capture" ELSE "process"]

\* sess, ok := a.sessions.Get(sessKey): lines 900-908.  On first contact a
\* session with a new data map is made.  A session that exists is used as it
\* is, with the data map that the store holds; the copy of its data into vars
\* (lines 912-917) is taken in the same step, and AccessRef counts the handler
\* at "get" as a reader of that map
Get(r) ==
    /\ ~crashed
    /\ req[r].pc = "get"
    /\ CanLock(r, muSessions)
    /\ LET got == SessionGet(Key(r)) IN
       IF ~got.ok \/ got.sess.State = ""
       THEN /\ heap' = Append(heap, EmptyMap)
            /\ owner' = Append(owner, <<req[r].tenant, req[r].waID>>)
            /\ req' = [req EXCEPT ![r] =
                         AfterCall([req[r] EXCEPT !.pc = "init",
                                                  !.sess = [State |-> "MENU", Data |-> Len(heap) + 1],
                                                  !.read = got.sess.State],
                                   muSessions)]
       ELSE /\ req' = [req EXCEPT ![r] =
                         AfterCall([WithVars(r, got.sess) EXCEPT !.read = got.sess.State],
                                   muSessions)]
            /\ UNCHANGED <<heap, owner>>
    /\ UNCHANGED <<tokenSet, disk, cache, sessions, crashed, received, pmIn, pmOut>>

\* a.sessions.Set(sessKey, sess) of the first contact: line 909
InitSet(r) ==
    /\ ~crashed
    /\ req[r].pc = "init"
    /\ CanLock(r, muSessions)
    /\ sessions' = SessionSet(sessions, Key(r), req[r].sess)
    /\ req' = [x \in Requests |->
                 IF x = r THEN AfterCall([req[x] EXCEPT !.pc = "vars"], muSessions)
                 ELSE OthersAfterSet(r, x)]
    /\ UNCHANGED <<tokenSet, disk, cache, heap, owner, crashed, received, pmIn, pmOut>>

\* lines 912-925 after the first contact
Vars(r) ==
    /\ ~crashed
    /\ req[r].pc = "vars"
    /\ req' = [req EXCEPT ![r] = WithVars(r, req[r].sess)]
    /\ UNCHANGED <<tokenSet, disk, cache, sessions, heap, owner, crashed, received, pmIn, pmOut>>

\* sess.Data["last_selected_id"] = selectedID: lines 932-947
Capture(r) ==
    /\ ~crashed
    /\ req[r].pc = "capture"
    /\ heap' = [heap EXCEPT ![req[r].sess.Data] = Put(@, kLastSelectedID, SelectedID(req[r].msg))]
    /\ req' = [req EXCEPT ![r].pc = "process"]
    /\ UNCHANGED <<tokenSet, disk, cache, sessions, owner, crashed, received, pmIn, pmOut>>

Apology(kind) ==
    [kind |-> "text", state |-> "", body |-> <<>>, err |-> kind, names |-> "", apology |-> TRUE]

\* whether an error of one message ends the process: handleMessage reports
\* every error with log.Printf and goes on (lines 923, 953, 990, 1018)
Fatal_onError(err) == err # ""

Fatal(err) == FALSE

\* the flow handleMessage and RenderAndSend work with after cache.Get: the
\* entry, or on a miss what loadFlowConfig gives (no states after an error)
FlowFor(c, tenant) ==
    IF tenant \in DOMAIN c THEN c[tenant] ELSE loadFlowConfig(disk[tenant]).cfg

\* the cache after cache.Get and, on a miss, a load that succeeds
CacheAfterGet(c, tenant) ==
    IF tenant \notin DOMAIN c /\ loadFlowConfig(disk[tenant]).err = ""
    THEN Put(c, tenant, loadFlowConfig(disk[tenant]).cfg)
    ELSE c

\* the action of the next state: "" when the flow has no such state or the
\* state declares none
ActionOf(cfg, next) ==
    IF next \in DOMAIN cfg.States THEN cfg.States[next].Action ELSE ""

\* an unhandled message goes to MENU, and the action of the next state is
\* looked up in the registry: lines 958-985, 1004-1006
Post_failsUnregistered(r, res, action) ==
    IF action # "" /\ action \notin Registry
    THEN [Finish(r, Apology("accion"))
            EXCEPT !.next = IF ~res.handled THEN "MENU" ELSE res.next,
                   !.handled = res.handled,
                   !.act = [kind |-> "unregistered", name |-> action, vars |-> EmptyMap]]
    ELSE [req[r] EXCEPT !.next = IF ~res.handled THEN "MENU" ELSE res.next,
                        !.handled = res.handled,
                        !.pc = IF action # "" THEN "action" ELSE "set"]

\* ... with the reply rendered before the action and the Set
Post_rendersFirst(r, res, action) ==
    [req[r] EXCEPT !.next = IF ~res.handled THEN "MENU" ELSE res.next,
                   !.handled = res.handled,
                   !.pc = "render",
                   !.act = IF action # "" /\ action \notin Registry
                           THEN [kind |-> "unregistered", name |-> action, vars |-> EmptyMap]
                           ELSE NoAct]

Post(r, res, action) ==
    [req[r] EXCEPT !.next = IF ~res.handled THEN "MENU" ELSE res.next,
                   !.handled = res.handled,
                   !.pc = IF action # "" /\ action \in Registry THEN "action" ELSE "set",
                   !.act = IF action # "" /\ action \notin Registry
                           THEN [kind |-> "unregistered", name |-> action, vars |-> EmptyMap]
                           ELSE NoAct]

\* what handleMessage makes of processMessage's results with cache c at hand
Dispatch(r, res, c) ==
    Post(r, res, ActionOf(FlowFor(c, req[r].tenant),
                          IF ~res.handled THEN "MENU" ELSE res.next))

\* processMessage with the flow in the cache, and the look-up of the action
ProcessCached(r) ==
    /\ ~crashed
    /\ req[r].pc = "process"
    /\ req[r].tenant \in DOMAIN cache
    /\ CanLock(r, muCache)
    /\ LET res == processMessage(TRUE, cache[req[r].tenant], disk[req[r].tenant],
                                 req[r].sess.State, req[r].msg) IN
       req' = [req EXCEPT ![r] = AfterCall(Dispatch(r, res, cache), muCache)]
    /\ UNCHANGED <<tokenSet, disk, cache, sessions, heap, owner, crashed, received, pmIn, pmOut>>

\* processMessage finds no flow in the cache
ProcessMiss(r) ==
    /\ ~crashed
    /\ req[r].pc = "process"
    /\ req[r].tenant \notin DOMAIN cache
    /\ CanLock(r, muCache)
    /\ req' = [req EXCEPT ![r] = AfterCall([req[r] EXCEPT !.pc = "load"], muCache)]
    /\ UNCHANGED <<tokenSet, disk, cache, sessions, heap, owner, crashed, received, pmIn, pmOut>>

\* the cache after processMessage's loadFlowConfig: a.cache.Set(tenant, loaded)
\* when the load gave no error, nothing otherwise: lines 1031-1036
CacheAfterLoad_cachesFailure(c, tenant, loaded) == Put(c, tenant, loaded.cfg)

CacheAfterLoad(c, tenant, loaded) ==
    IF loaded.err = "" THEN Put(c, tenant, loaded.cfg) ELSE c

\* ... loads it, stores it and resolves; a load error ends the message with
\* an apology: lines 951-956
ProcessLoad(r) ==
    /\ ~crashed
    /\ req[r].pc = "load"
    /\ loadFlowConfig(disk[req[r].tenant]).err = "" => CanLock(r, muCache)
    /\ cache' = CacheAfterLoad(cache, req[r].tenant, loadFlowConfig(disk[req[r].tenant]))
    /\ LET res == processMessage(FALSE, FlowEmpty, disk[req[r].tenant],
                                 req[r].sess.State, req[r].msg) IN
       /\ crashed' = Fatal(res.err)
       /\ IF res.err # ""
          THEN req' = [req EXCEPT ![r] = Finish(r, Apology(res.err))]
          ELSE req' = [req EXCEPT ![r] = AfterCall(Dispatch(r, res, cache'), muCache)]
    /\ UNCHANGED <<tokenSet, disk, sessions, heap, owner, received, pmIn, pmOut>>

\* what follows the handler's return: lines 989-1003
AfterAction_dropsOnError(r, name, res) ==
    IF res.err
    THEN [Finish(r, Apology("accion"))
            EXCEPT !.act = [kind |-> "err", name |-> name, vars |-> res.vars]]
    ELSE [req[r] EXCEPT !.pc = "merge",
                        !.act = [kind |-> "ok", name |-> name, vars |-> res.vars]]

AfterAction(r, name, res) ==
    [req[r] EXCEPT !.pc = IF res.err THEN "set" ELSE "merge",
                   !.act = [kind |-> IF res.err THEN "err" ELSE "ok",
                            name |-> name, vars |-> res.vars]]

\* newVars, errAction := fn(tenant, waID, &sess): line 987
Invoke(r) ==
    /\ ~crashed
    /\ req[r].pc = "action"
    /\ LET name == ActionOf(FlowFor(cache, req[r].tenant), req[r].next) IN
       \E res \in RunAction(name, req[r].waID, heap[req[r].sess.Data]) :
          /\ req' = [req EXCEPT ![r] = AfterAction(r, name, res)]
          /\ crashed' = Fatal(IF res.err THEN "accion" ELSE "")
    /\ UNCHANGED <<tokenSet, disk, cache, sessions, heap, owner, received, pmIn, pmOut>>

\* the handler's variables go into vars and into sess.Data: lines 993-1002
MergeVars(vs, newVars) == PutAll(vs, newVars)

MergeData(data, newVars) == PutAll(data, newVars)

Merge(r) ==
    /\ ~crashed
    /\ req[r].pc = "merge"
    /\ req' = [req EXCEPT ![r].pc = "set", ![r].vars = MergeVars(@, req[r].act.vars)]
    /\ heap' = [heap EXCEPT ![req[r].sess.Data] = MergeData(@, req[r].act.vars)]
    /\ UNCHANGED <<tokenSet, disk, cache, sessions, owner, crashed, received, pmIn, pmOut>>

\* sess.State = nextState; a.sessions.Set(sessKey, sess): lines 1011-1014
Set(r) ==
    /\ ~crashed
    /\ req[r].pc = "set"
    /\ CanLock(r, muSessions)
    /\ sessions' = SessionSet(sessions, Key(r), [req[r].sess EXCEPT !.State = req[r].next])
    /\ req' = [x \in Requests |->
                 IF x = r
                 THEN AfterCall([req[x] EXCEPT !.pc = "render", !.sess.State = req[r].next],
                                muSessions)
                 ELSE OthersAfterSet(r, x)]
    /\ UNCHANGED <<tokenSet, disk, cache, heap, owner, crashed, received, pmIn, pmOut>>

vChoose == <<"E", "l", "e", "g", "i", " ", "u", "n", "a", " ", "o", "p", "c", "i", "o", "n", ":">>

\* the body of an interactive message
InteractiveBody(st) == IF TrimSpace(st.Body) = <<>> THEN vChoose ELSE TrimSpace(st.Body)

\* an error that RenderAndSend returns before it sends: nothing is handed to
\* the channel; named is what the text of the error names
RenderError(stateName, kind, named) ==
    [kind |-> "none", state |-> stateName, body |-> <<>>, err |-> kind, names |-> named,
     apology |-> FALSE]

Outgoing(kind, stateName, body) ==
    [kind |-> kind, state |-> stateName, body |-> body, err |-> "", names |-> "",
     apology |-> FALSE]

\* what RenderAndSend hands to the channel for a state of the flow, or the
\* error it returns before sending: lines 706-805
Rendered(cfg, stateName, vs) ==
    IF stateName \notin DOMAIN cfg.States THEN { RenderError(stateName, "no existe", stateName) }
    ELSE LET st == cfg.States[stateName] IN
         IF st.Type = "text"
         THEN { Outgoing("text", stateName, b) : b \in renderVars(st.Body, vs) }
         ELSE IF st.Type = "interactive_list"
         THEN IF ~st.HasList THEN { RenderError(stateName, "list es nil", stateName) }
              ELSE { Outgoing("list", stateName, b) : b \in renderVars(InteractiveBody(st), vs) }
         ELSE IF st.Type = "interactive_buttons"
         THEN IF ~st.HasButtons THEN { RenderError(stateName, "buttons es nil", stateName) }
              ELSE { Outgoing("buttons", stateName, b) : b \in renderVars(InteractiveBody(st), vs) }
         ELSE { RenderError(stateName, "no soportado", st.Type) }

\* the outcome of RenderAndSend and of the apology after an error: the
\* channel may refuse a message that was handed to it
Sent(o, delivered) ==
    IF o.err # "" THEN [o EXCEPT !.apology = TRUE]
    ELSE IF delivered THEN o
    ELSE [o EXCEPT !.err = "entrega", !.apology = TRUE]

\* RenderAndSend: lines 695-704, 1016-1020
Render(r) ==
    /\ ~crashed
    /\ req[r].pc = "render"
    /\ CanLock(r, muCache)
    /\ LET tenant == req[r].tenant IN
       IF tenant \notin DOMAIN cache /\ loadFlowConfig(disk[tenant]).err # ""
       THEN /\ req' = [req EXCEPT ![r] =
                         AfterCall(Finish(r, Apology(loadFlowConfig(disk[tenant]).err)), muCache)]
            /\ crashed' = Fatal(loadFlowConfig(disk[tenant]).err)
            /\ UNCHANGED cache
       ELSE /\ cache' = CacheAfterGet(cache, tenant)
            /\ \E o \in Rendered(FlowFor(cache, tenant), req[r].next, req[r].vars),
                  delivered \in BOOLEAN :
                 /\ req' = [req EXCEPT ![r] = AfterCall(Finish(r, Sent(o, delivered)), muCache)]
                 /\ crashed' = Fatal(Sent(o, delivered).err)
    /\ UNCHANGED <<tokenSet, disk, sessions, heap, owner, received, pmIn, pmOut>>

\* the data map a handler is about to read or write outside the store's lock
\* (0 for none), and whether it writes
AccessRef(r) ==
    CASE req[r].pc = "get" /\ SessionGet(Key(r)).ok /\ SessionGet(Key(r)).sess.State # ""
           -> SessionGet(Key(r)).sess.Data
      [] req[r].pc \in {"vars", "capture", "merge"} -> req[r].sess.Data
      [] req[r].pc = "action"
         /\ ActionOf(FlowFor(cache, req[r].tenant), req[r].next) = "schedule_appointment"
           -> req[r].sess.Data
      [] OTHER -> 0

Writes(r) == req[r].pc \in {"capture", "merge"}

\* two handlers are at the same map without synchronisation, one of them
\* writing: the Go runtime may end the process ("concurrent map writes",
\* "concurrent map read and map write")
ConcurrentMapAccess ==
    /\ ~crashed
    /\ \E r \in Requests, x \in Requests :
         /\ r # x
         /\ Writes(r)
         /\ AccessRef(x) # 0 /\ AccessRef(x) = AccessRef(r)
    /\ crashed' = TRUE
    /\ UNCHANGED <<tokenSet, disk, cache, sessions, heap, owner, req, received, pmIn, pmOut>>

Init ==
    /\ SystemInit
    /\ pmIn = [cached |-> FALSE, file |-> FileMissing, state |-> "MENU", msg |-> Msg("")]
    /\ pmOut = [done |-> FALSE, next |-> "", handled |-> FALSE, err |-> "", stores |-> FALSE]

Next ==
    \/ \E r \in Requests : Receive(r)
    \/ \E r \in Requests : Redeliver(r)
    \/ \E r \in Requests : Release(r)
    \/ \E r \in Requests : Get(r)
    \/ \E r \in Requests : InitSet(r)
    \/ \E r \in Requests : Vars(r)
    \/ \E r \in Requests : Capture(r)
    \/ \E r \in Requests : ProcessCached(r)
    \/ \E r \in Requests : ProcessMiss(r)
    \/ \E r \in Requests : ProcessLoad(r)
    \/ \E r \in Requests : Invoke(r)
    \/ \E r \in Requests : Merge(r)
    \/ \E r \in Requests : Set(r)
    \/ \E r \in Requests : Render(r)
    \/ ConcurrentMapAccess

Spec == Init /\ [][Next]_vars

-----------------------------------------------------------------------------
(* Sessions under concurrent and repeated messages *)

\* the handler has stored the session with its next state
HasSet(r) == req[r].pc = "render" \/ (req[r].pc = "done" /\ req[r].next # "")

\* the state a handler resolves its message from
From(r) == IF req[r].read = "" THEN "MENU" ELSE req[r].read

Conv(r) == <<req[r].tenant, req[r].waID>>

\* C2: a handler works only on the session of its own (tenant, user): the
\* data map it holds was made for that pair, so nothing of another pair's
\* session reaches its render variables or its stored session.
C2_OwnSessionOnly ==
    \A r \in Requests :
        (req[r].pc \notin {"idle", "get"} /\ req[r].sess.Data # 0)
            => owner[req[r].sess.Data] = Conv(r)

\* C3: the store holds the state of whichever handler Set last, and nothing
\* of an earlier Set: a handler that has stored its session, and after whose
\* Set no other handler has Set the key, finds its own next state stored, also
\* when it resolved from a state that another handler had replaced meanwhile.
C3_LastSetWins ==
    \A r \in Requests :
        (HasSet(r) /\ ~req[r].lost)
            => /\ Key(r) \in DOMAIN sessions
               /\ sessions[Key(r)].State = req[r].next

\* two handlers of one (tenant, user) resolved from the same state; the
\* first stored SLOTS, the second then stored MENU over it
C3_Witness ==
    \E r \in Requests, x \in Requests :
        /\ r # x /\ Conv(r) = Conv(x)
        /\ HasSet(r) /\ HasSet(x)
        /\ From(r) = From(x)
        /\ req[r].lost /\ req[x].stale /\ ~req[x].lost
        /\ req[r].next = "SLOTS" /\ req[x].next = "MENU"
        /\ sessions[Key(x)].State = "MENU"

\* C4: at the Set that follows a successful action, every variable that the
\* handler returned is in the render variables and in the stored session
\* data, with the returned value.
C4_ActionVarsStored ==
    [][\A r \in Requests :
          (req[r].pc = "set" /\ req'[r].pc = "render" /\ req[r].act.kind = "ok")
              => \A k \in DOMAIN req[r].act.vars :
                    /\ Lookup(req'[r].vars, k) = req[r].act.vars[k]
                    /\ Lookup(heap'[sessions'[Key(r)].Data], k) = req[r].act.vars[k]]_vars

\* the keys whose placeholder is in a text and that have no value
Unresolved(body, vs) ==
    { k \in {kName, kSlot1, kConfirm, kClientName, kMissing} :
        Contains(body, Placeholder(k)) /\ k \notin DOMAIN vs }

\* C5: a handler that returns an error adds nothing to the render variables
\* or to the session data, and the message goes on: the session is stored
\* with the next state, the next state is rendered, and a placeholder without
\* a value is in the rendered text as it was written.
C5_FailedActionGoesOn ==
    /\ [][\A r \in Requests :
            (req[r].pc = "action" /\ req'[r].act.kind = "err")
                => /\ req'[r].pc = "set"
                   /\ req'[r].vars = req[r].vars
                   /\ heap' = heap /\ sessions' = sessions]_vars
    /\ [](\A r \in Requests :
            req[r].act.kind = "err"
                => /\ req[r].pc \in {"set", "render", "done"}
                   /\ (HasSet(r) /\ ~req[r].lost)
                         => sessions[Key(r)].State = req[r].next
                   /\ req[r].pc = "done"
                         => /\ req[r].out.state = req[r].next
                            /\ req[r].out.err \in {"", "entrega"}
                            /\ \A k \in Unresolved(
                                   FlowFor(cache, req[r].tenant).States[req[r].next].Body,
                                   req[r].vars) :
                                  Contains(req[r].out.body, Placeholder(k)))

\* the appointment could not be made: BOOK is stored and rendered, with its
\* placeholder left as written
C5_Witness ==
    \E r \in Requests :
        /\ req[r].pc = "done" /\ req[r].act.kind = "err"
        /\ req[r].act.name = "schedule_appointment"
        /\ req[r].next = "BOOK" /\ sessions[Key(r)].State = "BOOK"
        /\ req[r].out.kind = "text" /\ req[r].out.err = ""
        /\ req[r].out.body = <<"T", " ">> \o Placeholder(kConfirm)
        /\ kConfirm \notin DOMAIN heap[sessions[Key(r)].Data]

\* C6: when a message has been handled and is delivered and handled once
\* more, with no other message for the key in between, the store holds the
\* session it held after the first handling.
C6_RedeliveryIdempotent ==
    \A r \in Requests :
        (req[r].pc = "done" /\ req[r].again /\ ~req[r].stale /\ ~req[r].lost)
            => View(Key(r)) = req[r].before

-----------------------------------------------------------------------------
(* Actions that the registry does not know *)

\* C11: a next state whose action is not in the registry has no handler
\* invoked and the transition goes on: the handler's variables and the
\* session data are as they were, the session is stored with the next state,
\* and the next state is rendered with those variables.
C11_UnregisteredActionSkipped ==
    /\ [][\A r \in Requests :
            req'[r].act.kind = "unregistered"
                => /\ req'[r].vars = req[r].vars
                   /\ req'[r] # req[r] => heap' = heap]_vars
    /\ [](\A r \in Requests :
            req[r].act.kind = "unregistered"
                => /\ req[r].act.name \notin Registry
                   /\ req[r].pc \in {"set", "render", "done"}
                   /\ (HasSet(r) /\ ~req[r].lost)
                         => sessions[Key(r)].State = req[r].next
                   /\ req[r].pc = "done"
                         => /\ req[r].out.state = req[r].next
                            /\ req[r].out.err \in {"", "entrega"}
                            /\ req[r].out.body \in
                                 renderVars(FlowFor(cache, req[r].tenant).States[req[r].next].Body,
                                            req[r].vars))

\* INFO declares fetch_price: INFO is stored and rendered, with the name
\* filled in and the placeholder that has no value left as written
C11_Witness ==
    \E r \in Requests :
        /\ req[r].pc = "done" /\ req[r].act.kind = "unregistered"
        /\ req[r].act.name = "fetch_price"
        /\ req[r].next = "INFO" /\ sessions[Key(r)].State = "INFO"
        /\ req[r].out.kind = "text" /\ req[r].out.err = ""
        /\ req[r].out.body = Placeholder(kMissing) \o req[r].name

-----------------------------------------------------------------------------
(* Recovery to the menu *)

\* the message is a text whose trimmed body is the keyword
IsMenuText(msg) == msg.Type = "text" /\ msg.HasText /\ msg.Body \in MenuBodies

\* C12: when a message that the resolver did not handle, or a text "menu",
\* has been handled, and no other handler has Set the key meanwhile, the
\* stored session state is MENU, whatever state was stored before.
C12_NeverStuck ==
    \A r \in Requests :
        (/\ req[r].pc = "done" /\ ~req[r].stale /\ ~req[r].lost
         /\ ~req[r].handled \/ IsMenuText(req[r].msg))
            => /\ Key(r) \in DOMAIN sessions
               /\ sessions[Key(r)].State = "MENU"

-----------------------------------------------------------------------------
(* The config cache *)

\* the flow of a handler that has resolved its message: the one its action
\* is looked up in, its handler runs for and RenderAndSend renders
Resolved(r) ==
    req[r].pc \in {"action", "merge", "set", "render"}
    \/ (req[r].pc = "done" /\ req[r].next # "")

\* C13: every entry of the cache is the tenant's flow as read from its file,
\* with at least one state and without a defect; and a handler that has
\* resolved a message works with such an entry.
C13_CacheHoldsValidFlows ==
    /\ \A t \in DOMAIN cache :
          /\ t \in Tenants
          /\ disk[t].readable /\ disk[t].json
          /\ cache[t] = disk[t].cfg
          /\ DOMAIN cache[t].States # {}
          /\ validateFlowConfig(cache[t]) = {}
    /\ \A r \in Requests :
          Resolved(r) => req[r].tenant \in DOMAIN cache

\* the first tenant's flow is in the cache; the second tenant's flow has a
\* button title of 21 characters, a message for it ended with the error and
\* the cache has no entry for it
C13_Witness ==
    /\ TenantA \in DOMAIN cache
    /\ disk[TenantAB] = File(FlowLongTitle)
    /\ TenantAB \notin DOMAIN cache
    /\ \E r \in Requests :
          /\ req[r].tenant = TenantAB /\ req[r].pc = "done"
          /\ req[r].out.err = "invalid" /\ req[r].out.apology

\* C14: a load that fails on a cache miss ends the message with the error
\* and writes nothing to the cache, so the next message of the tenant misses
\* and loads again; a load that succeeds puts the flow in the cache, the entry
\* stays as it is, and a message that finds it does not load.
C14_FailureNotCached ==
    /\ [][\A r \in Requests :
            (req[r].pc = "load" /\ req'[r].pc # "load")
                => IF loadFlowConfig(disk[req[r].tenant]).err # ""
                   THEN /\ cache' = cache
                        /\ req'[r].pc = "done" /\ req'[r].next = ""
                        /\ req'[r].out.err = loadFlowConfig(disk[req[r].tenant]).err
                   ELSE /\ req[r].tenant \in DOMAIN cache'
                        /\ cache'[req[r].tenant] = disk[req[r].tenant].cfg
                        /\ req'[r].out.err = ""]_vars
    /\ [][\A r \in Requests :
            (req[r].pc = "process" /\ req'[r].pc # "process")
                => (req'[r].pc = "load" <=> req[r].tenant \notin DOMAIN cache)]_vars
    /\ [][\A t \in DOMAIN cache : t \in DOMAIN cache' /\ cache'[t] = cache[t]]_vars

\* the first tenant's flow.json is missing: two of its messages each went
\* through the load and ended with the read error, and the cache is empty
C14_Witness ==
    /\ TenantA \notin DOMAIN cache
    /\ \E r \in Requests, x \in Requests :
          /\ r # x
          /\ req[r].tenant = TenantA /\ req[r].pc = "done" /\ req[r].out.err = "read"
          /\ req[x].tenant = TenantA /\ req[x].pc = "done" /\ req[x].out.err = "read"

-----------------------------------------------------------------------------
(* The session store and its lock *)

\* C15: what the store holds for a key, the contents of the data map
\* included, changes only in a step that is a Set: writing to the record that
\* Get returned leaves the stored record as it is.
C15_StoreChangesOnlyBySet ==
    [][sessions' = sessions
          => \A k \in DOMAIN sessions :
                heap'[sessions[k].Data] = heap[sessions[k].Data]]_vars

\* C16: a handler holds no lock between two calls of the store or the
\* cache, in particular not while its action handler runs or while it renders
\* and sends; so a handler that is about to Get or Set, or to read the cache,
\* does not wait for another.
C16_NoLockAcrossIO ==
    \A r \in Requests :
        /\ req[r].locks = {}
        /\ req[r].pc \in {"get", "init", "set"} => CanLock(r, muSessions)
        /\ req[r].pc \in {"process", "load", "render"} => CanLock(r, muCache)

\* one conversation's action handler is about to run, after its Get and its
\* look-up in the cache; a handler of another conversation is about to Set
C16_Witness ==
    \E r \in Requests, x \in Requests :
        /\ r # x /\ Key(r) # Key(x)
        /\ req[r].pc = "action" /\ req[r].locks = {}
        /\ req[x].pc = "set" /\ CanLock(x, muSessions)

-----------------------------------------------------------------------------
(* Failures stay with their message *)

\* the handler's message has met a failure: its action returned an error, or
\* the message ended with a load, render or delivery error
Failing(r) == req[r].act.kind = "err" \/ req[r].out.err # ""

NoSessionOf(conv) ==
    \A k \in DOMAIN sessions : owner[sessions[k].Data] # conv

\* C20: a first event of a (tenant, user) pair that has no stored session makes
\* a session with state MENU and an empty data map, the session is stored as
\* it was made, and the event is resolved against state MENU.
C20_FirstContactStartsAtMenu ==
    [][\A r \in Requests :
          /\ (Get(r) /\ NoSessionOf(Conv(r)))
                => /\ req'[r].pc = "init"
                   /\ req'[r].sess.State = "MENU"
                   /\ heap'[req'[r].sess.Data] = EmptyMap
          /\ (InitSet(r) /\ owner[req[r].sess.Data] = Conv(r))
                => View(Key(r))' = [ok |-> TRUE, State |-> "MENU", Data |-> EmptyMap]
          /\ ((ProcessCached(r) \/ ProcessLoad(r)) /\ req[r].read = "")
                => req[r].sess.State = "MENU"]_vars

\* C24: the steps of a resolved event come in the order action, merge, Set,
\* render: the action is followed by the merge or the Set, the merge by the
\* Set, the Set stores the new state and is followed by the rendering; when
\* the rendering starts the store holds the new state (unless another handler
\* has Set the key since), and the rendering, failed or not, leaves the store
\* and the session data as they are.
C24_StoredBeforeRender ==
    [][\A r \in Requests :
          /\ Invoke(r) => req'[r].pc \in {"merge", "set"}
          /\ Merge(r) => req'[r].pc = "set"
          /\ Set(r) => /\ req'[r].pc = "render"
                       /\ View(Key(r))'.State = req[r].next
          /\ Render(r) => /\ ~req[r].lost => sessions[Key(r)].State = req[r].next
                          /\ sessions' = sessions
                          /\ heap' = heap]_vars

\* the action of SLOTS ran, SLOTS was stored, and the delivery of its message
\* failed: the store still holds SLOTS
C24_Witness ==
    \E r \in Requests :
        /\ req[r].pc = "done" /\ req[r].out.err = "entrega"
        /\ req[r].act.kind = "ok" /\ req[r].next = "SLOTS" /\ From(r) = "MENU"
        /\ ~req[r].lost
        /\ sessions[Key(r)].State = "SLOTS"

\* C26: the action handler of an event that is an interactive reply with a
\* selected id finds that id under last_selected_id in the session data it is
\* given.
C26_ActionSeesSelection ==
    [][\A r \in Requests :
          (Invoke(r) /\ SelectedID(req[r].msg) # <<>>)
              => Lookup(heap[req[r].sess.Data], kLastSelectedID) = SelectedID(req[r].msg)]_vars

\* C27: a session that is stored stays stored under its key, with a non-empty
\* state name, and no key of its data is dropped: no step puts the session of
\* the first contact in the place of a session that exists.
C27_SessionsPersist ==
    [][\A k \in DOMAIN sessions :
          /\ k \in DOMAIN sessions'
          /\ sessions'[k].State # ""
          /\ DOMAIN heap[sessions[k].Data] \subseteq DOMAIN heap'[sessions'[k].Data]]_vars

\* C28: an event for which processMessage returns an error runs no action and
\* leaves the stored session as it was when the event was read: after the
\* first contact of a user (and with no Set by another handler since) the
\* store holds state MENU and empty data, without last_selected_id.
C28_ErrorLeavesStore ==
    [][\A r \in Requests :
          (ProcessLoad(r) /\ req'[r].out.err # "")
              => /\ req'[r].act = NoAct
                 /\ View(Key(r))' = View(Key(r))
                 /\ (req[r].read = "" /\ ~req[r].stale)
                       => View(Key(r))' = [ok |-> TRUE, State |-> "MENU", Data |-> EmptyMap]]_vars

\* C29: every flow in the cache has a state named MENU and only states of the
\* kinds text, interactive_list and interactive_buttons, and no message that
\* fell back to MENU ends with the render error of a state that does not
\* exist or of a kind that is not supported.
C29_CachedFlowServesFallback ==
    /\ \A t \in DOMAIN cache :
          /\ "MENU" \in DOMAIN cache[t].States
          /\ \A n \in DOMAIN cache[t].States :
                cache[t].States[n].Type \in {"text", "interactive_list", "interactive_buttons"}
    /\ \A r \in Requests :
          (req[r].pc = "done" /\ ~req[r].handled /\ req[r].next = "MENU")
              => req[r].out.err \notin {"no existe", "no soportado"}

-----------------------------------------------------------------------------
(* processMessage applied to drawn arguments *)

PMNone == [done |-> FALSE, next |-> "", handled |-> FALSE, err |-> "", stores |-> FALSE]

PMArgs ==
    { a \in [cached : BOOLEAN, file : Files, state : StateNames, msg : AllMsgs] :
        a.cached => a.file \in LoadableFiles }

InitProcessMessage ==
    /\ tokenSet = TRUE
    /\ disk = [t \in Tenants |-> File(FlowMain)]
    /\ cache = <<>>
    /\ sessions = <<>>
    /\ heap = <<>>
    /\ owner = <<>>
    /\ req = [r \in Requests |-> IdleReq]
    /\ crashed = FALSE
    /\ received = 0
    /\ pmIn \in PMArgs
    /\ pmOut = PMNone

ApplyProcessMessage ==
    /\ ~pmOut.done
    /\ pmOut' = [done |-> TRUE] @@
                processMessage(pmIn.cached, pmIn.file.cfg, pmIn.file, pmIn.state, pmIn.msg)
    /\ UNCHANGED <<tokenSet, disk, cache, sessions, heap, owner, req, crashed, received, pmIn>>

SpecProcessMessage == InitProcessMessage /\ [][ApplyProcessMessage]_vars

\* the flow processMessage resolved against, and the current state in it
PMFlow == pmIn.file.cfg
PMStateExists == pmIn.state \in DOMAIN PMFlow.States
PMState == PMFlow.States[pmIn.state]
PMResolved == pmOut.done /\ pmIn.file \in LoadableFiles

\* a well-formed reply: the part that the interactive type announces is there
PMIsReply ==
    /\ pmIn.msg.Type = "interactive" /\ pmIn.msg.HasInteractive
    /\ \/ pmIn.msg.IType = "list_reply" /\ pmIn.msg.HasListReply
       \/ pmIn.msg.IType = "button_reply" /\ pmIn.msg.HasButtonReply
PMReplyId == IF pmIn.msg.IType = "list_reply" THEN pmIn.msg.ListID ELSE pmIn.msg.ButtonID

PMIsText == pmIn.msg.Type = "text" /\ pmIn.msg.HasText

\* the transition target the message selects in the current state ("" if none)
PMTarget ==
    IF PMIsText /\ pmIn.msg.Body \in OtherBodies THEN PMState.OnTextNext
    ELSE IF PMIsReply /\ PMReplyId \in DOMAIN PMState.OnSelectNext
         THEN PMState.OnSelectNext[PMReplyId]
    ELSE ""

\* C1: when the transition the message selects names a state that the flow
\* does not define, processMessage returns (MENU, handled=false) without error.
C1_DanglingTargetFallsBack ==
    (PMResolved /\ PMStateExists /\ PMTarget # "" /\ PMTarget \notin DOMAIN PMFlow.States)
        => (pmOut.err = "" /\ pmOut.next = "MENU" /\ ~pmOut.handled)

\* C7: a text message whose trimmed body is "menu" in any letter case, in a
\* state of the flow, gives (MENU, handled=true) whatever on_text_next says.
C7_MenuKeyword ==
    (PMResolved /\ PMStateExists /\ PMIsText /\ pmIn.msg.Body \in MenuBodies)
        => (pmOut.err = "" /\ pmOut.next = "MENU" /\ pmOut.handled)

C7_Witness ==
    /\ PMResolved /\ PMStateExists /\ PMIsText
    /\ pmIn.msg.Body = <<" ", "M", "e", "n", "u", "\n">>
    /\ PMState.OnTextNext = "INFO"
    /\ pmOut.next = "MENU" /\ pmOut.handled

\* C8 as stated: a reply is handled, and goes to on_select_next[id], exactly
\* when on_select_next contains the selected id.
C8_SelectIffContains ==
    (PMResolved /\ PMStateExists /\ PMIsReply)
        => IF PMReplyId \in DOMAIN PMState.OnSelectNext
           THEN pmOut.next = PMState.OnSelectNext[PMReplyId] /\ pmOut.handled
           ELSE pmOut.next = "MENU" /\ ~pmOut.handled

\* C8, amended: a reply is handled, and goes to on_select_next[id], exactly
\* when on_select_next maps the selected id to a non-empty state name;
\* otherwise the result is (MENU, handled=false).  List and button replies
\* follow the same rule.
C8_SelectIffMapped ==
    (PMResolved /\ PMStateExists /\ PMIsReply)
        => /\ pmOut.err = ""
           /\ IF PMReplyId \in DOMAIN PMState.OnSelectNext /\ PMState.OnSelectNext[PMReplyId] # ""
              THEN pmOut.next = PMState.OnSelectNext[PMReplyId] /\ pmOut.handled
              ELSE pmOut.next = "MENU" /\ ~pmOut.handled

C8_Witness ==
    /\ PMResolved /\ pmIn.state = "MENU" /\ pmIn.file = File(FlowMain)
    /\ pmIn.msg = ButtonReply(idC)
    /\ pmOut.next = "MENU" /\ ~pmOut.handled

\* C9: a text message that is not the keyword goes to on_text_next, handled,
\* when the state declares it, and to (MENU, handled=false) when it does not;
\* a message that is neither text nor a list or button reply gives
\* (MENU, handled=false).
C9_TextAndOtherKinds ==
    /\ (PMResolved /\ PMStateExists /\ PMIsText /\ pmIn.msg.Body \in OtherBodies)
          => /\ pmOut.err = ""
             /\ IF PMState.OnTextNext # ""
                THEN pmOut.next = PMState.OnTextNext /\ pmOut.handled
                ELSE pmOut.next = "MENU" /\ ~pmOut.handled
    /\ (PMResolved /\ PMStateExists
        /\ (pmIn.msg.Type \notin {"text", "interactive"}
            \/ (pmIn.msg.Type = "interactive" /\ pmIn.msg.HasInteractive
                /\ pmIn.msg.IType \notin {"list_reply", "button_reply"})))
          => (pmOut.err = "" /\ pmOut.next = "MENU" /\ ~pmOut.handled)

C9_Witness ==
    /\ PMResolved /\ pmIn.file = File(FlowSmall) /\ pmIn.state = "HELP"
    /\ pmIn.msg = TextMsg(<<"m", "e", "n", "u", "s">>)
    /\ pmOut.next = "MENU" /\ ~pmOut.handled

\* C10: when the current state is not a state of the tenant's (loaded) flow,
\* every message gives (MENU, handled=false) without error.
C10_UnknownStateFallsBack ==
    (PMResolved /\ ~PMStateExists)
        => (pmOut.err = "" /\ pmOut.next = "MENU" /\ ~pmOut.handled)

C10_Witness ==
    /\ PMResolved /\ ~PMStateExists /\ pmIn.state = "GHOST"
    /\ pmIn.msg = TextMsg(sMenu)
    /\ pmOut.next = "MENU" /\ ~pmOut.handled

-----------------------------------------------------------------------------
(* renderVars applied to drawn arguments *)

\* texts with and without placeholders
RVTexts ==
    { <<>>, <<"x">>, Placeholder(kName), <<"H", "i", " ">> \o Placeholder(kName),
      Placeholder(kName) \o Placeholder(kClientName), Placeholder(kMissing) }

\* values of variables: plain ones, and ones that are themselves the
\* placeholder of a variable (a profile name is whatever the sender chose)
RVValues == { <<>>, <<"A", "n", "a">>, Placeholder(kName), Placeholder(kClientName) }

\* variable sets over name and client_name
RVMaps == UNION { [ks -> RVValues] : ks \in SUBSET {kName, kClientName} }

InitRenderVars ==
    /\ tokenSet = TRUE
    /\ disk = [t \in Tenants |-> File(FlowMain)]
    /\ cache = <<>>
    /\ sessions = <<>>
    /\ heap = <<>>
    /\ owner = <<>>
    /\ req = [r \in Requests |-> IdleReq]
    /\ crashed = FALSE
    /\ received = 0
    /\ pmIn \in [s : RVTexts, vs : RVMaps]
    /\ pmOut = [done |-> FALSE, first |-> <<>>, second |-> <<>>]

\* the same text is rendered twice with the same variables
ApplyRenderVars ==
    /\ ~pmOut.done
    /\ \E a \in renderVars(pmIn.s, pmIn.vs), b \in renderVars(pmIn.s, pmIn.vs) :
          pmOut' = [done |-> TRUE, first |-> a, second |-> b]
    /\ UNCHANGED <<tokenSet, disk, cache, sessions, heap, owner, req, crashed, received, pmIn>>

SpecRenderVars == InitRenderVars /\ [][ApplyRenderVars]_vars

\* C18: rendering a text twice with the same variables gives the same
\* result, also when the value of one variable contains the placeholder of
\* another.
C18_RenderDeterministic ==
    pmOut.done => pmOut.first = pmOut.second

-----------------------------------------------------------------------------
(* RenderAndSend applied to drawn arguments *)

\* the flows RenderAndSend can find in the cache: those that load
RSFlows == { f \in {FlowMain, FlowSmall, FlowNoMenu, FlowOdd} : loadFlowConfig(File(f)).err = "" }

RSStates == StateNames \cup {"PROMO"}

RSVars ==
    { EmptyMap, (kName :> <<"A", "n", "a">>),
      (kName :> <<"A", "n", "a">>) @@ (kSlot1 :> <<"L", "u", "n">>) }

InitRender ==
    /\ tokenSet = TRUE
    /\ disk = [t \in Tenants |-> File(FlowMain)]
    /\ cache = <<>>
    /\ sessions = <<>>
    /\ heap = <<>>
    /\ owner = <<>>
    /\ req = [r \in Requests |-> IdleReq]
    /\ crashed = FALSE
    /\ received = 0
    /\ pmIn \in [cfg : RSFlows, state : RSStates, vs : RSVars]
    /\ pmOut = [done |-> FALSE, out |-> NoOut]

ApplyRender ==
    /\ ~pmOut.done
    /\ \E o \in Rendered(pmIn.cfg, pmIn.state, pmIn.vs), delivered \in BOOLEAN :
          pmOut' = [done |-> TRUE, out |-> Sent(o, delivered)]
    /\ UNCHANGED <<tokenSet, disk, cache, sessions, heap, owner, req, crashed, received, pmIn>>

SpecRender == InitRender /\ [][ApplyRender]_vars

\* the state cannot be rendered: the flow has no such state, its kind is none
\* of the three, or the list or the buttons of its kind are missing
Unrenderable(cfg, stateName) ==
    \/ stateName \notin DOMAIN cfg.States
    \/ cfg.States[stateName].Type \notin {"text", "interactive_list", "interactive_buttons"}
    \/ cfg.States[stateName].Type = "interactive_list" /\ ~cfg.States[stateName].HasList
    \/ cfg.States[stateName].Type = "interactive_buttons" /\ ~cfg.States[stateName].HasButtons

\* C19: for a state that cannot be rendered RenderAndSend returns an error
\* that names the state, and hands no message for it to the channel.
C19_RenderErrorNamesState ==
    (pmOut.done /\ Unrenderable(pmIn.cfg, pmIn.state))
        => /\ pmOut.out.err # ""
           /\ pmOut.out.kind = "none"
           /\ pmOut.out.names = pmIn.state

-----------------------------------------------------------------------------
(* validateFlowConfig and loadFlowConfig applied to drawn flows *)

VChars == {"x", cAcute}

\* one state MENU of the given kind
VFlow(st) == [States |-> ("MENU" :> st)]

VListState(l) ==
    [State("interactive_list", <<"m">>, "", "", <<>>) EXCEPT !.HasList = TRUE, !.List = l]

VButtonsState(b) ==
    [State("interactive_buttons", <<"m">>, "", "", <<>>) EXCEPT !.HasButtons = TRUE, !.Buttons = b]

\* list states with every label at its limit or one past it
VListLengths ==
    { VFlow(VListState(
        [Header |-> Rep(h, c), ButtonText |-> Rep(bt, c), Footer |-> Rep(f, c),
         Sections |-> << [Title |-> Rep(t, c),
                          Rows |-> << [ID |-> idA, Title |-> Rep(rt, c),
                                       Description |-> Rep(rd, c)] >>] >>]))
      : h \in {MaxHeaderLen, MaxHeaderLen + 1}, f \in {MaxHeaderLen, MaxHeaderLen + 1},
        bt \in {MaxButtonTextLen, MaxButtonTextLen + 1}, t \in {MaxTitleLen, MaxTitleLen + 1},
        rt \in {MaxTitleLen, MaxTitleLen + 1},
        rd \in {MaxDescriptionLen, MaxDescriptionLen + 1}, c \in VChars }

\* buttons states with every label at its limit or one past it, and zero to
\* four buttons
VButtonsLengths ==
    { VFlow(VButtonsState(
        [Header |-> Rep(h, c), Footer |-> Rep(f, c),
         Buttons |-> [i \in 1..n |-> Button(<<"B">> \o Rep(i, "i"), Rep(t, c))]]))
      : h \in {MaxHeaderLen, MaxHeaderLen + 1}, f \in {MaxHeaderLen, MaxHeaderLen + 1},
        t \in {MaxButtonTextLen, MaxButtonTextLen + 1}, n \in 0..(MaxButtons + 1),
        c \in VChars }

\* the ids of two options of one container
VIds == {idA, idB, <<>>, <<" ">>}

VOptionIds ==
    { VFlow(VListState(ListOf(<<Row(a, <<"a">>), Row(b, <<"b">>)>>))) : a \in VIds, b \in VIds }
    \cup
    { VFlow(VButtonsState(ButtonsOf(<<Button(a, <<"a">>), Button(b, <<"b">>)>>)))
      : a \in VIds, b \in VIds }

\* header_media on a list state and on a text state
VMedia ==
    { [Type |-> t, Path |-> path, URL |-> url]
      : t \in {<<>>, sImage, <<" ", "I", "m", "a", "g", "e">>, <<"v", "i", "d", "e", "o">>},
        path \in {<<>>, <<" ">>, <<"p">>}, url \in {<<>>, <<" ">>, <<"u">>} }

VWithMedia ==
    { VFlow([st EXCEPT !.HasHeaderMedia = TRUE, !.HeaderMedia = m])
      : st \in { VListState(ListOf(<<Row(idA, <<"a">>)>>)), State("text", <<"m">>, "", "", <<>>) },
        m \in VMedia }

\* states whose list or buttons are missing
VNil ==
    { VFlow(State("interactive_list", <<"m">>, "", "", <<>>)),
      VFlow(State("interactive_buttons", <<"m">>, "", "", <<>>)) }

VFlows ==
    VListLengths \cup VButtonsLengths \cup VOptionIds \cup VWithMedia \cup VNil
    \cup {FlowMain, FlowSmall, FlowNoMenu, FlowLongTitle, FlowOdd}

InitValidate ==
    /\ tokenSet = TRUE
    /\ disk = [t \in Tenants |-> File(FlowMain)]
    /\ cache = <<>>
    /\ sessions = <<>>
    /\ heap = <<>>
    /\ owner = <<>>
    /\ req = [r \in Requests |-> IdleReq]
    /\ crashed = FALSE
    /\ received = 0
    /\ pmIn \in [cfg : VFlows]
    /\ pmOut = [done |-> FALSE, defects |-> {}, err |-> ""]

ApplyValidate ==
    /\ ~pmOut.done
    /\ pmOut' = [done |-> TRUE, defects |-> validateFlowConfig(pmIn.cfg),
                 err |-> loadFlowConfig(File(pmIn.cfg)).err]
    /\ UNCHANGED <<tokenSet, disk, cache, sessions, heap, owner, req, crashed, received, pmIn>>

SpecValidate == InitValidate /\ [][ApplyValidate]_vars

\* the state of the drawn flow has the defect
Reports(n, field) == Defect(n, field) \in pmOut.defects

\* the rows of a list, section after section
RowsOf(l) ==
    { l.Sections[i].Rows[j] : <<i, j>> \in
        UNION { {i} \X (1..Len(l.Sections[i].Rows)) : i \in 1..Len(l.Sections) } }

\* C21: a label longer than its limit, counted in code points, or a number of
\* buttons outside 1..3, gives a defect that names the state and the field, and
\* the flow is rejected; a label at its limit gives no such defect.
C21_LimitsEnforced ==
    pmOut.done =>
      /\ pmOut.defects # {} => pmOut.err = "invalid"
      /\ \A n \in DOMAIN pmIn.cfg.States :
           LET st == pmIn.cfg.States[n] IN
           /\ (st.Type = "interactive_list" /\ st.HasList) =>
                /\ Len(st.List.Header) > 60 <=> Reports(n, "header > 60")
                /\ Len(st.List.Footer) > 60 <=> Reports(n, "footer > 60")
                /\ Len(st.List.ButtonText) > 20 <=> Reports(n, "button_text > 20")
                /\ (\E i \in 1..Len(st.List.Sections) : Len(st.List.Sections[i].Title) > 24)
                      <=> Reports(n, "section title > 24")
                /\ (\E row \in RowsOf(st.List) : Len(row.Title) > 24)
                      <=> Reports(n, "row title > 24")
                /\ (\E row \in RowsOf(st.List) : Len(row.Description) > 72)
                      <=> Reports(n, "row desc > 72")
           /\ (st.Type = "interactive_buttons" /\ st.HasButtons) =>
                /\ Len(st.Buttons.Header) > 60 <=> Reports(n, "buttons.header > 60")
                /\ Len(st.Buttons.Footer) > 60 <=> Reports(n, "buttons.footer > 60")
                /\ (\E i \in 1..Len(st.Buttons.Buttons) : Len(st.Buttons.Buttons[i].Title) > 20)
                      <=> Reports(n, "button title > 20")
                /\ Len(st.Buttons.Buttons) \notin 1..3
                      <=> (Reports(n, "no tiene buttons") \/ Reports(n, "botones > 3"))

\* a list whose header has exactly 60 two-byte code points and whose row
\* description has 73: the only defect is the description
C21_Witness ==
    /\ pmOut.done
    /\ pmIn.cfg.States["MENU"].HasList
    /\ pmIn.cfg.States["MENU"].List.Header = Rep(60, cAcute)
    /\ pmOut.defects = {Defect("MENU", "row desc > 72")}
    /\ pmOut.err = "invalid"

\* the defects that validateFlowConfig has for a header_media
MediaFields ==
    {"header_media.type vacio", "header_media.type no soportado", "header_media requiere url o path"}

\* C22: a header_media passes validation only if its kind is image and exactly
\* one of url and path is given; with neither or with both it is a defect.
C22_MediaExactlyOne ==
    pmOut.done =>
      \A n \in DOMAIN pmIn.cfg.States :
        LET st == pmIn.cfg.States[n]
            hasURL == TrimSpace(st.HeaderMedia.URL) # <<>>
            hasPath == TrimSpace(st.HeaderMedia.Path) # <<>>
        IN st.HasHeaderMedia =>
             ((\A f \in MediaFields : ~Reports(n, f))
                <=> (ToLower(TrimSpace(st.HeaderMedia.Type)) = sImage /\ (hasURL # hasPath)))

\* the ids of the options of a state, in the order of the document: the rows
\* of its list or its buttons
OptionIds(st) ==
    IF st.Type = "interactive_list" /\ st.HasList /\ Len(st.List.Sections) = 1
    THEN [j \in 1..Len(st.List.Sections[1].Rows) |-> st.List.Sections[1].Rows[j].ID]
    ELSE IF st.Type = "interactive_buttons" /\ st.HasButtons
    THEN [j \in 1..Len(st.Buttons.Buttons) |-> st.Buttons.Buttons[j].ID]
    ELSE <<>>

\* C23: a flow that validateFlowConfig accepts has, in every list and in every
\* buttons state, option ids that are non-blank and differ from one another.
C23_OptionIdsUnique ==
    (pmOut.done /\ pmOut.err = "") =>
      \A n \in DOMAIN pmIn.cfg.States :
        LET ids == OptionIds(pmIn.cfg.States[n]) IN
        /\ \A i \in 1..Len(ids) : TrimSpace(ids[i]) # <<>>
        /\ \A i, j \in 1..Len(ids) : i # j => ids[i] # ids[j]

-----------------------------------------------------------------------------
(* the session key of handleMessage applied to drawn pairs *)

\* tenant names, as the part of a TENANT_MAP entry after its first ':', and
\* sender identities, as the "from" of a message
KeyParts == { <<"a">>, <<"b">>, <<"c">>, <<"a", ":", "b">>, <<"b", ":", "c">> }

InitSessKey ==
    /\ tokenSet = TRUE
    /\ disk = [t \in Tenants |-> File(FlowMain)]
    /\ cache = <<>>
    /\ sessions = <<>>
    /\ heap = <<>>
    /\ owner = <<>>
    /\ req = [r \in Requests |-> IdleReq]
    /\ crashed = FALSE
    /\ received = 0
    /\ pmIn \in [tenant1 : KeyParts, waID1 : KeyParts, tenant2 : KeyParts, waID2 : KeyParts]
    /\ pmOut = [done |-> FALSE, key1 |-> <<>>, key2 |-> <<>>]

ApplySessKey ==
    /\ ~pmOut.done
    /\ pmOut' = [done |-> TRUE, key1 |-> SessKey(pmIn.tenant1, pmIn.waID1),
                 key2 |-> SessKey(pmIn.tenant2, pmIn.waID2)]
    /\ UNCHANGED <<tokenSet, disk, cache, sessions, heap, owner, req, crashed, received, pmIn>>

SpecSessKey == InitSessKey /\ [][ApplySessKey]_vars

\* C25: two distinct pairs of tenant and sender identity have distinct
\* session keys.
C25_KeyInjective ==
    (pmOut.done /\ <<pmIn.tenant1, pmIn.waID1>> # <<pmIn.tenant2, pmIn.waID2>>)
        => pmOut.key1 # pmOut.key2

====
